---- MODULE Spec2Model ----
(***************************************************************************)
(* ai-stock-report: the row normalizers (server/ingest.js, web/src/App.jsx *)
(* in its static-JSON and its merged version), the metrics helpers         *)
(* (calcGrowth, computeFairValuePerYear) in their three copies, and the    *)
(* live valuation snapshot with the Ask-AI fair value.                     *)
(*                                                                         *)
(* JavaScript values are tagged records.  A finite number is the rational  *)
(* n/d in lowest terms (d > 0); NaN and +/-Infinity are values of their    *)
(* own, so that a division by zero yields what IEEE-754 yields.  A string  *)
(* is a sequence of one-character strings.  The sign of zero is not kept.  *)
(***************************************************************************)
EXTENDS Integers, Sequences, FiniteSets, TLC

(* ------------------------------ JS values ------------------------------ *)

Abs(i) == IF i < 0 THEN -i ELSE i

Sign(i) == IF i < 0 THEN -1 ELSE IF i > 0 THEN 1 ELSE 0

RECURSIVE Gcd(_, _)
Gcd(a, b) == IF b = 0 THEN a ELSE Gcd(b, a % b)

Undefined == [t |-> "undefined", n |-> 0, d |-> 1, s |-> <<>>]

Null == [t |-> "null", n |-> 0, d |-> 1, s |-> <<>>]

NaN == [t |-> "NaN", n |-> 0, d |-> 1, s |-> <<>>]

Infinity(sgn) == [t |-> "Infinity", n |-> sgn, d |-> 1, s |-> <<>>]

\* the finite number p/q (q # 0), in lowest terms
Rat(p, q) ==
    LET g == Gcd(Abs(p), Abs(q))
        sg == IF q < 0 THEN -1 ELSE 1
    IN  [t |-> "number", n |-> sg * (p \div g), d |-> Abs(q) \div g, s |-> <<>>]

Num(i) == Rat(i, 1)

Str(chars) == [t |-> "string", n |-> 0, d |-> 1, s |-> chars]

\* typeof v === 'number'
IsNumberType(v) == v.t \in {"number", "NaN", "Infinity"}

\* Number.isFinite(v): a number that is neither NaN nor an infinity
NumberIsFinite(v) == v.t = "number"

\* v == null (true of null and of undefined)
IsNullish(v) == v.t \in {"undefined", "null"}

\* v ?? w
Coalesce(v, w) == IF IsNullish(v) THEN w ELSE v

\* ToBoolean(v)
Truthy(v) ==
    CASE v.t = "undefined" -> FALSE
      [] v.t = "null"      -> FALSE
      [] v.t = "NaN"       -> FALSE
      [] v.t = "number"    -> v.n # 0
      [] v.t = "Infinity"  -> TRUE
      [] v.t = "string"    -> v.s # <<>>

(* ------------------------------- strings ------------------------------- *)

Upper == <<"A","B","C","D","E","F","G","H","I","J","K","L","M",
           "N","O","P","Q","R","S","T","U","V","W","X","Y","Z">>

Lower == <<"a","b","c","d","e","f","g","h","i","j","k","l","m",
           "n","o","p","q","r","s","t","u","v","w","x","y","z">>

Digits == <<"0","1","2","3","4","5","6","7","8","9">>

IsSpace(c) == c = " "

LowerTable == [c \in {Upper[i] : i \in 1..26} |->
                  Lower[CHOOSE i \in 1..26 : Upper[i] = c]]

UpperTable == [c \in {Lower[i] : i \in 1..26} |->
                  Upper[CHOOSE i \in 1..26 : Lower[i] = c]]

LowerChar(c) == IF c \in DOMAIN LowerTable THEN LowerTable[c] ELSE c

UpperChar(c) == IF c \in DOMAIN UpperTable THEN UpperTable[c] ELSE c

\* String.prototype.toLowerCase / toUpperCase
ToLowerCase(cs) == [i \in 1..Len(cs) |-> LowerChar(cs[i])]

ToUpperCase(cs) == [i \in 1..Len(cs) |-> UpperChar(cs[i])]

RECURSIVE TrimStart(_)
TrimStart(cs) ==
    IF cs # <<>> /\ IsSpace(Head(cs)) THEN TrimStart(Tail(cs)) ELSE cs

RECURSIVE TrimEnd(_)
TrimEnd(cs) ==
    IF cs # <<>> /\ IsSpace(cs[Len(cs)])
    THEN TrimEnd(SubSeq(cs, 1, Len(cs) - 1))
    ELSE cs

\* String.prototype.trim
Trim(cs) == TrimEnd(TrimStart(cs))

IsDigit(c) == \E i \in 1..10 : Digits[i] = c

DigitVal(c) == (CHOOSE i \in 1..10 : Digits[i] = c) - 1

AllDigits(cs) == \A i \in 1..Len(cs) : IsDigit(cs[i])

RECURSIVE DecVal(_)
DecVal(cs) ==
    IF cs = <<>> THEN 0
    ELSE 10 * DecVal(SubSeq(cs, 1, Len(cs) - 1)) + DigitVal(cs[Len(cs)])

RECURSIVE Pow10(_)
Pow10(k) == IF k = 0 THEN 1 ELSE 10 * Pow10(k - 1)

\* an unsigned decimal literal: digits, optionally one "." among them
UnsignedDecimal(cs) ==
    LET dots == {i \in 1..Len(cs) : cs[i] = "."}
    IN  IF dots = {}
        THEN IF cs # <<>> /\ AllDigits(cs) THEN Num(DecVal(cs)) ELSE NaN
        ELSE IF Cardinality(dots) > 1 THEN NaN
        ELSE LET p == CHOOSE i \in dots : TRUE
                 ip == SubSeq(cs, 1, p - 1)
                 fp == SubSeq(cs, p + 1, Len(cs))
             IN  IF Len(cs) > 1 /\ AllDigits(ip) /\ AllDigits(fp)
                 THEN Rat(DecVal(ip) * Pow10(Len(fp)) + DecVal(fp), Pow10(Len(fp)))
                 ELSE NaN

\* StringToNumber of ECMAScript on the decimal subset: surrounding white space
\* is ignored, the empty string is 0, anything that is no literal is NaN
StringToNumber(cs) ==
    LET tr == Trim(cs)
    IN  IF tr = <<>> THEN Num(0)
        ELSE IF Head(tr) = "-"
        THEN LET u == UnsignedDecimal(Tail(tr))
             IN  IF u.t = "number" THEN Rat(-u.n, u.d) ELSE NaN
        ELSE IF Head(tr) = "+" THEN UnsignedDecimal(Tail(tr))
        ELSE UnsignedDecimal(tr)

\* Number(v)
ToNumber(v) ==
    CASE v.t = "undefined" -> NaN
      [] v.t = "null"      -> Num(0)
      [] v.t = "string"    -> StringToNumber(v.s)
      [] OTHER             -> v

\* the decimal digits of a natural number
RECURSIVE NatToChars(_)
NatToChars(k) ==
    IF k < 10 THEN <<Digits[k + 1]>>
    ELSE Append(NatToChars(k \div 10), Digits[(k % 10) + 1])

\* Number.prototype.toFixed(2) of a finite number: the nearest multiple of
\* 0.01, the larger in magnitude of two equally near ones, as text
ToFixed2(x) ==
    LET q == (2 * Abs(x.n) * 100 + x.d) \div (2 * x.d)
    IN  (IF x.n < 0 THEN <<"-">> ELSE <<>>)
        \o NatToChars(q \div 100) \o <<".">>
        \o <<Digits[((q % 100) \div 10) + 1], Digits[(q % 10) + 1]>>

\* the longest prefix of cs made of digits
RECURSIVE DigitPrefix(_)
DigitPrefix(cs) ==
    IF cs # <<>> /\ IsDigit(Head(cs)) THEN <<Head(cs)>> \o DigitPrefix(Tail(cs))
    ELSE <<>>

\* parseFloat on the decimal subset: leading white space and a sign, then the
\* longest prefix that is a decimal literal; NaN when there is none
ParseFloat(cs) ==
    LET t == TrimStart(cs)
        neg == t # <<>> /\ Head(t) = "-"
        u == IF t # <<>> /\ Head(t) \in {"-", "+"} THEN Tail(t) ELSE t
        ip == DigitPrefix(u)
        rest == SubSeq(u, Len(ip) + 1, Len(u))
        fp == IF rest # <<>> /\ Head(rest) = "." THEN DigitPrefix(Tail(rest)) ELSE <<>>
        mag == DecVal(ip) * Pow10(Len(fp)) + DecVal(fp)
    IN  IF ip = <<>> /\ fp = <<>> THEN NaN
        ELSE Rat(IF neg THEN -mag ELSE mag, Pow10(Len(fp)))

\* x.replace(/,/g, '')
RECURSIVE RemoveCommas(_)
RemoveCommas(cs) ==
    IF cs = <<>> THEN <<>>
    ELSE (IF Head(cs) = "," THEN <<>> ELSE <<Head(cs)>>) \o RemoveCommas(Tail(cs))

(* ------------------------------ arithmetic ----------------------------- *)

\* a - b on numbers
JsSub(a, b) ==
    CASE a.t = "NaN" \/ b.t = "NaN" -> NaN
      [] a.t = "Infinity" /\ b.t = "Infinity" ->
            IF a.n = b.n THEN NaN ELSE a
      [] a.t = "Infinity" -> a
      [] b.t = "Infinity" -> Infinity(-b.n)
      [] OTHER -> Rat(a.n * b.d - b.n * a.d, a.d * b.d)

\* a + b on numbers
JsAdd(a, b) ==
    CASE a.t = "NaN" \/ b.t = "NaN" -> NaN
      [] a.t = "Infinity" /\ b.t = "Infinity" ->
            IF a.n = b.n THEN a ELSE NaN
      [] a.t = "Infinity" -> a
      [] b.t = "Infinity" -> b
      [] OTHER -> Rat(a.n * b.d + b.n * a.d, a.d * b.d)

\* a * b on numbers
JsMul(a, b) ==
    CASE a.t = "NaN" \/ b.t = "NaN" -> NaN
      [] a.t = "Infinity" \/ b.t = "Infinity" ->
            IF Sign(a.n) * Sign(b.n) = 0 THEN NaN
            ELSE Infinity(Sign(a.n) * Sign(b.n))
      [] OTHER -> Rat(a.n * b.n, a.d * b.d)

\* a / b on numbers: x/0 is +/-Infinity, 0/0 is NaN
JsDiv(a, b) ==
    CASE a.t = "NaN" \/ b.t = "NaN" -> NaN
      [] a.t = "Infinity" /\ b.t = "Infinity" -> NaN
      [] a.t = "Infinity" -> Infinity(IF b.n < 0 THEN -a.n ELSE a.n)
      [] b.t = "Infinity" -> Num(0)
      [] b.n = 0 -> IF a.n = 0 THEN NaN ELSE Infinity(Sign(a.n))
      [] OTHER -> Rat(a.n * b.d, a.d * b.n)

\* a > 0 on numbers
JsPositive(a) == a.t \in {"number", "Infinity"} /\ a.n > 0

(* --------------------------- objects and maps -------------------------- *)

\* An object (a parsed JSON object, a sheet row) is the sequence of its
\* entries [k, v] in insertion order, the keys pairwise different.

\* obj.key / obj[key]
ObjGet(obj, key) ==
    IF \E i \in 1..Len(obj) : obj[i].k = key
    THEN obj[CHOOSE i \in 1..Len(obj) : obj[i].k = key].v
    ELSE Undefined

\* Map.prototype.set: an existing key keeps its place and takes the new value
MapSet(m, key, val) ==
    IF \E i \in 1..Len(m) : m[i].k = key
    THEN [i \in 1..Len(m) |-> IF m[i].k = key THEN [k |-> key, v |-> val] ELSE m[i]]
    ELSE Append(m, [k |-> key, v |-> val])

\* Map.prototype.get / Map.prototype.has
MapGet(m, key) == ObjGet(m, key)

MapHas(m, key) == \E i \in 1..Len(m) : m[i].k = key

\* the comparator with its operands swapped
ByYear_swapped(a, b) == JsSub(b.year, a.year)

\* (a, b) => a.year - b.year
ByYear(a, b) == JsSub(a.year, b.year)

\* Array.prototype.sort((a, b) => a.year - b.year): the stable sort of
\* ECMAScript; a comparator result of NaN counts as 0
CmpSign(v) == IF v.t = "NaN" THEN 0 ELSE Sign(v.n)

RECURSIVE InsertSorted(_, _)
InsertSorted(sorted, x) ==
    IF sorted = <<>> THEN <<x>>
    ELSE IF CmpSign(ByYear(sorted[Len(sorted)], x)) <= 0 THEN Append(sorted, x)
    ELSE Append(InsertSorted(SubSeq(sorted, 1, Len(sorted) - 1), x),
                sorted[Len(sorted)])

RECURSIVE ArraySort(_)
ArraySort(arr) ==
    IF arr = <<>> THEN <<>>
    ELSE InsertSorted(ArraySort(SubSeq(arr, 1, Len(arr) - 1)), arr[Len(arr)])

(* ------------------------------ header keys ---------------------------- *)

K_year == <<"y","e","a","r">>

K_revenue == <<"r","e","v","e","n","u","e">>

K_sales == <<"s","a","l","e","s">>

K_operatingincome == <<"o","p","e","r","a","t","i","n","g","i","n","c","o","m","e">>

K_operating_income == <<"o","p","e","r","a","t","i","n","g","_","i","n","c","o","m","e">>

K_netincome == <<"n","e","t","i","n","c","o","m","e">>

K_net_income == <<"n","e","t","_","i","n","c","o","m","e">>

K_sharesoutstanding ==
    <<"s","h","a","r","e","s","o","u","t","s","t","a","n","d","i","n","g">>

\* the camel-case property names of a FinancialRecord
P_operatingIncome == <<"o","p","e","r","a","t","i","n","g","I","n","c","o","m","e">>

P_netIncome == <<"n","e","t","I","n","c","o","m","e">>

P_sharesOutstanding ==
    <<"s","h","a","r","e","s","O","u","t","s","t","a","n","d","i","n","g">>

FinancialRecord(year, revenue, op, net, shares) ==
    [year |-> year, revenue |-> revenue, operatingIncome |-> op,
     netIncome |-> net, sharesOutstanding |-> shares]

(* -------------------- server/ingest.js: loadExcelToJson ---------------- *)

\* A sheet is [header, cells]: the header row and the data rows, a data row
\* having one cell per header; Undefined stands for an empty cell.

\* xlsx.utils.sheet_to_json(sheet, { defval: null }): one object per data row,
\* keyed by the header row, an empty cell reading as null
sheet_to_json(sheet) ==
    [i \in 1..Len(sheet.cells) |->
        [j \in 1..Len(sheet.header) |->
            [k |-> sheet.header[j],
             v |-> IF sheet.cells[i][j].t = "undefined" THEN Null
                   ELSE sheet.cells[i][j]]]]

normalizeHeader(h) == ToLowerCase(Trim(h))

RECURSIVE ingest_headerMap(_)
ingest_headerMap(entries) ==
    IF entries = <<>> THEN <<>>
    ELSE LET e == entries[Len(entries)]
         IN  MapSet(ingest_headerMap(SubSeq(entries, 1, Len(entries) - 1)),
                    normalizeHeader(e.k), e.v)

\* one turn of the loop of loadExcelToJson: the records pushed for row r
ingest_row(r) ==
    LET m == ingest_headerMap(r)
        year == ToNumber(MapGet(m, K_year))
        revenue == ToNumber(Coalesce(MapGet(m, K_revenue), MapGet(m, K_sales)))
        op == ToNumber(Coalesce(MapGet(m, K_operatingincome),
                                MapGet(m, K_operating_income)))
        net == ToNumber(Coalesce(MapGet(m, K_netincome), MapGet(m, K_net_income)))
        shares == IF MapHas(m, K_sharesoutstanding)
                  THEN ToNumber(MapGet(m, K_sharesoutstanding))
                  ELSE Null
    IN  IF ~NumberIsFinite(year) THEN <<>>
        ELSE <<FinancialRecord(year, revenue, op, net, shares)>>

\* the loop keeping one record per year
RECURSIVE ingest_loop_onePerYear(_)
ingest_loop_onePerYear(rows) ==
    IF rows = <<>> THEN <<>>
    ELSE LET before == ingest_loop_onePerYear(SubSeq(rows, 1, Len(rows) - 1))
             rec == ingest_row(rows[Len(rows)])
         IN  IF rec # <<>> /\ \E k \in 1..Len(before) : before[k].year = rec[1].year
             THEN before
             ELSE before \o rec

RECURSIVE ingest_loop(_)
ingest_loop(rows) ==
    IF rows = <<>> THEN <<>>
    ELSE ingest_loop(SubSeq(rows, 1, Len(rows) - 1)) \o ingest_row(rows[Len(rows)])

loadExcelToJson(sheet) == ArraySort(ingest_loop(sheet_to_json(sheet)))

(* ------------- web/src/App.jsx (static JSON): the normalizer ----------- *)

\* num(v)
web_num(v) ==
    LET n == ToNumber(v) IN IF NumberIsFinite(n) THEN n ELSE Null

RECURSIVE web_lowerMapOf(_)
web_lowerMapOf(entries) ==
    IF entries = <<>> THEN <<>>
    ELSE LET e == entries[Len(entries)]
         IN  MapSet(web_lowerMapOf(SubSeq(entries, 1, Len(entries) - 1)),
                    ToLowerCase(Trim(e.k)), e.v)

\* lowerMap(obj); a row is never null or undefined here
lowerMap(obj) == web_lowerMapOf(obj)

web_row(r) ==
    LET m == lowerMap(r)
        year == web_num(MapGet(m, K_year))
        revenue == web_num(Coalesce(MapGet(m, K_revenue), MapGet(m, K_sales)))
        op == web_num(Coalesce(MapGet(m, K_operatingincome),
                               MapGet(m, K_operating_income)))
        net == web_num(Coalesce(MapGet(m, K_netincome), MapGet(m, K_net_income)))
        shares == IF MapHas(m, K_sharesoutstanding)
                  THEN web_num(MapGet(m, K_sharesoutstanding))
                  ELSE Null
    IN  IF ~NumberIsFinite(year) THEN <<>>
        ELSE <<FinancialRecord(year, revenue, op, net, shares)>>

RECURSIVE web_loop(_)
web_loop(arr) ==
    IF arr = <<>> THEN <<>>
    ELSE web_loop(SubSeq(arr, 1, Len(arr) - 1)) \o web_row(arr[Len(arr)])

web_normalizeFinancialRows(arr) == ArraySort(web_loop(arr))

(* ---------------- web/src/App.jsx (merged): the normalizer ------------- *)

\* num(v) and numOrNull(v)
app_num(v) == IF NumberIsFinite(ToNumber(v)) THEN ToNumber(v) ELSE Null

numOrNull(v) == IF NumberIsFinite(ToNumber(v)) THEN ToNumber(v) ELSE Null

app_row(r) ==
    LET year == app_num(ObjGet(r, K_year))
        revenue == app_num(ObjGet(r, K_revenue))
        op == app_num(ObjGet(r, P_operatingIncome))
        net == app_num(ObjGet(r, P_netIncome))
        shares == numOrNull(ObjGet(r, P_sharesOutstanding))
    IN  IF ~NumberIsFinite(year) THEN <<>>
        ELSE <<FinancialRecord(year, revenue, op, net, shares)>>

RECURSIVE app_loop(_)
app_loop(arr) ==
    IF arr = <<>> THEN <<>>
    ELSE app_loop(SubSeq(arr, 1, Len(arr) - 1)) \o app_row(arr[Len(arr)])

app_normalizeFinancialRows(arr) == ArraySort(app_loop(arr))

(* ------------------ server/index.js: the metrics helpers --------------- *)

GrowthPoint(year, growth) == [year |-> year, growth |-> growth]

FairValuePoint(year, equityValue, perShare) ==
    [year |-> year, equityValue |-> equityValue, fairValuePerShare |-> perShare]

\* the loop of calcGrowth from JS index i on; series[i] is prev, series[i+1] curr
RECURSIVE srv_growthLoop(_, _)
srv_growthLoop(series, i) ==
    IF ~(i < Len(series)) THEN <<>>
    ELSE LET prev == series[i]
             curr == series[i + 1]
         IN  (IF NumberIsFinite(prev.revenue) /\ NumberIsFinite(curr.revenue)
              THEN <<GrowthPoint(curr.year,
                        JsDiv(JsSub(curr.revenue, prev.revenue), prev.revenue))>>
              ELSE <<GrowthPoint(curr.year, Null)>>)
             \o srv_growthLoop(series, i + 1)

\* the loop begun one pair late
srv_calcGrowth_lateStart(series) == srv_growthLoop(series, 2)

srv_calcGrowth(series) == srv_growthLoop(series, 1)

\* the share guard as a null test only
srv_fairValueOf_nullTest(r, targetPE) ==
    LET equityValue == IF NumberIsFinite(r.netIncome)
                       THEN JsMul(r.netIncome, targetPE) ELSE Null
        perShare == IF ~IsNullish(r.sharesOutstanding) /\ ~IsNullish(equityValue)
                    THEN JsDiv(equityValue, ToNumber(r.sharesOutstanding))
                    ELSE Null
    IN  FairValuePoint(r.year, equityValue, perShare)

srv_fairValueOf(r, targetPE) ==
    LET equityValue == IF NumberIsFinite(r.netIncome)
                       THEN JsMul(r.netIncome, targetPE) ELSE Null
        perShare == IF Truthy(r.sharesOutstanding) /\ ~IsNullish(equityValue)
                    THEN JsDiv(equityValue, ToNumber(r.sharesOutstanding))
                    ELSE Null
    IN  FairValuePoint(r.year, equityValue, perShare)

srv_computeFairValuePerYear(rows, targetPE) ==
    [i \in 1..Len(rows) |-> srv_fairValueOf(rows[i], targetPE)]

\* const TARGET_PE = Number(process.env.TARGET_PE || 25)
TARGET_PE(env) == ToNumber(IF Truthy(env) THEN env ELSE Num(25))

\* data.rows.filter((r) => Number.isFinite(r.year))
RECURSIVE srv_finiteYears(_)
srv_finiteYears(rows) ==
    IF rows = <<>> THEN <<>>
    ELSE (IF NumberIsFinite(Head(rows).year) THEN <<Head(rows)>> ELSE <<>>)
         \o srv_finiteYears(Tail(rows))

(* ------------- web/src/App.jsx (static JSON): the same helpers --------- *)

RECURSIVE web_growthLoop(_, _)
web_growthLoop(series, i) ==
    IF ~(i < Len(series)) THEN <<>>
    ELSE LET prev == series[i]
             curr == series[i + 1]
         IN  (IF NumberIsFinite(prev.revenue) /\ NumberIsFinite(curr.revenue)
              THEN <<GrowthPoint(curr.year,
                        JsDiv(JsSub(curr.revenue, prev.revenue), prev.revenue))>>
              ELSE <<GrowthPoint(curr.year, Null)>>)
             \o web_growthLoop(series, i + 1)

\* the copy with a zero base guarded: no growth where the division is not finite
web_calcGrowth_guarded(series) ==
    LET g == web_growthLoop(series, 1)
    IN  [k \in 1..Len(g) |->
            IF g[k].growth.t \in {"NaN", "Infinity"}
            THEN GrowthPoint(g[k].year, Null) ELSE g[k]]

web_calcGrowth(series) == web_growthLoop(series, 1)

web_fairValueOf(r, targetPE) ==
    LET equityValue == IF NumberIsFinite(r.netIncome)
                       THEN JsMul(r.netIncome, targetPE) ELSE Null
        perShare == IF Truthy(r.sharesOutstanding) /\ ~IsNullish(equityValue)
                    THEN JsDiv(equityValue, ToNumber(r.sharesOutstanding))
                    ELSE Null
    IN  FairValuePoint(r.year, equityValue, perShare)

web_computeFairValuePerYear(rows, targetPE) ==
    [i \in 1..Len(rows) |-> web_fairValueOf(rows[i], targetPE)]

(* ---------------- web/src/App.jsx (merged): the same helpers ----------- *)

RECURSIVE app_growthLoop(_, _)
app_growthLoop(series, i) ==
    IF ~(i < Len(series)) THEN <<>>
    ELSE LET prev == series[i]
             curr == series[i + 1]
         IN  (IF NumberIsFinite(prev.revenue) /\ NumberIsFinite(curr.revenue)
              THEN <<GrowthPoint(curr.year,
                        JsDiv(JsSub(curr.revenue, prev.revenue), prev.revenue))>>
              ELSE <<GrowthPoint(curr.year, Null)>>)
             \o app_growthLoop(series, i + 1)

app_calcGrowth(series) == app_growthLoop(series, 1)

\* the equity value without the multiple
app_fairValueOf_noMultiple(r, targetPE) ==
    LET equityValue == IF NumberIsFinite(r.netIncome) THEN r.netIncome ELSE Null
        perShare == IF Truthy(r.sharesOutstanding) /\ ~IsNullish(equityValue)
                    THEN JsDiv(equityValue, ToNumber(r.sharesOutstanding))
                    ELSE Null
    IN  FairValuePoint(r.year, equityValue, perShare)

app_fairValueOf(r, targetPE) ==
    LET equityValue == IF NumberIsFinite(r.netIncome)
                       THEN JsMul(r.netIncome, targetPE) ELSE Null
        perShare == IF Truthy(r.sharesOutstanding) /\ ~IsNullish(equityValue)
                    THEN JsDiv(equityValue, ToNumber(r.sharesOutstanding))
                    ELSE Null
    IN  FairValuePoint(r.year, equityValue, perShare)

app_computeFairValuePerYear(rows, targetPE) ==
    [i \in 1..Len(rows) |-> app_fairValueOf(rows[i], targetPE)]

\* Number(targetPE) || 0, the multiple both clients pass on
clientTargetPE(targetPE) ==
    IF Truthy(ToNumber(targetPE)) THEN ToNumber(targetPE) ELSE Num(0)

(* ================================ state ================================ *)

VARIABLES
    source,   \* the raw row set handed to a normalizer: [header, cells]
    norm,     \* the last normalizer run: [by, out]
    series,   \* the canonical rows handed to the metrics helpers
    view,     \* the last metrics computation: [by, pe, rows, growth, fair]
    \* the dashboard of App.jsx (merged)
    config,   \* [hasWebGPU, openaiKey]: 'gpu' in navigator, OPENAI_KEY set
    selected, \* the ticker of the selected company, "" before companies load
    selects,  \* how many selections were made
    inflight, \* the fetchValuationMetrics calls not yet settled: [id, symbol]
    metrics,  \* <<>> for null, else <<snapshot>>
    aiBusy, aiFV, aiError, aiCached, longWait,
    ai,       \* the askAI invocation in flight: [pc, m, key, timer]
    cache,    \* localStorage: the set of entries [key, at, fv]
    now,      \* Date.now(), in hours
    aiFrom,   \* history: how aiFV was obtained, [via, m]
    \* the server: ingest.js runs and index.js
    disk,     \* out/: the set of files [slug, data]
    ingested, \* history: the datasets saved, in order, [ticker, exchange, rows]
    srv,      \* [env, openai, pc, req, data]: the process and the /report in flight
    res       \* <<>>, else <<the last response>>: [status, body, req, narrative]

normVars == <<source, norm>>

metricVars == <<series, view>>

dashVars == <<config, selected, selects, inflight, metrics, aiBusy, aiFV, aiError,
              aiCached, longWait, ai, cache, now, aiFrom>>

srvVars == <<disk, ingested, srv, res>>

vars == <<normVars, metricVars, dashVars, srvVars>>

(* ------------------------------- bounds -------------------------------- *)

\* the longest raw row set and the longest canonical series
MaxRows == 2

(* -------------------------- raw row sets (input) ----------------------- *)

H_canonical ==
    <<K_year, K_revenue, P_operatingIncome, P_netIncome, P_sharesOutstanding>>

\* the same five columns under spreadsheet spellings and aliases
H_aliased ==
    << <<" ","Y","e","a","r"," ">>,
       <<"S","a","l","e","s">>,
       <<"O","p","e","r","a","t","i","n","g","_","I","n","c","o","m","e">>,
       <<"N","E","T","_","I","N","C","O","M","E">>,
       <<"s","h","a","r","e","s","O","u","t","s","t","a","n","d","i","n","g"," ">> >>

\* a source without a shares column
H_noShares == <<K_year, K_revenue, K_operating_income, K_net_income>>

Headers == {H_canonical, H_aliased, H_noShares}

\* a year cell that holds a year: a number, or its digits as text
CleanYears == {Num(2022), Str(<<"2","0","2","3">>)}

\* a well-formed data row: year, revenue, operating income, net income, shares
CleanRow(y) == <<y, Num(100), Num(7), Num(10), Num(5)>>

\* what a cell holds when it is not a number: nothing, null, "", "abc"
DirtyCells == {Undefined, Null, Str(<<>>), Str(<<"a","b","c">>)}

\* the data rows: a well-formed row, or the row of 2022 with a single cell
\* spoilt
RowCells ==
    {CleanRow(y) : y \in CleanYears}
    \cup {[CleanRow(Num(2022)) EXCEPT ![j] = v] : j \in 1..5, v \in DirtyCells}

Sources ==
    {[header |-> h, cells |-> c] :
        h \in Headers,
        c \in UNION {[1..n -> RowCells] : n \in 0..MaxRows}}

\* the source as a sheet: every data row cut to the header's width
AsSheet(src) ==
    [header |-> src.header,
     cells |-> [i \in 1..Len(src.cells) |-> SubSeq(src.cells[i], 1, Len(src.header))]]

\* the source as parsed JSON rows: an empty cell is a key the row lacks
RECURSIVE JsonEntries(_, _, _)
JsonEntries(header, cells, j) ==
    IF j > Len(header) THEN <<>>
    ELSE (IF cells[j].t = "undefined" THEN <<>>
          ELSE <<[k |-> header[j], v |-> cells[j]]>>)
         \o JsonEntries(header, cells, j + 1)

AsJsonRows(src) ==
    [i \in 1..Len(src.cells) |-> JsonEntries(src.header, src.cells[i], 1)]

NoSource == [header |-> <<>>, cells |-> <<>>]

NoNorm == [by |-> "none", out |-> <<>>]

NoView == [by |-> "none", pe |-> Null, rows |-> <<>>, growth |-> <<>>, fair |-> <<>>]

(* ----------------------- the normalizers at work ----------------------- *)

\* node ingest.js <excelPath> <ticker> <exchange>: rows = loadExcelToJson(full)
Ingest ==
    /\ norm.by = "none"
    /\ norm' = [by |-> "ingest", out |-> loadExcelToJson(AsSheet(source))]
    /\ UNCHANGED <<source, metricVars, dashVars, srvVars>>

\* App.jsx (static JSON), loadDataset: cleaned = normalizeFinancialRows(j.rows)
WebLoadDataset ==
    /\ norm.by = "none"
    /\ norm' = [by |-> "web", out |-> web_normalizeFinancialRows(AsJsonRows(source))]
    /\ UNCHANGED <<source, metricVars, dashVars, srvVars>>

\* App.jsx (merged): rows = normalizeFinancialRows(company?.rows || [])
AppRows ==
    /\ norm.by = "none"
    /\ norm' = [by |-> "app", out |-> app_normalizeFinancialRows(AsJsonRows(source))]
    /\ UNCHANGED <<source, metricVars, dashVars, srvVars>>

\* no askAI invocation in flight
Idle == [pc |-> "idle", m |-> <<>>, key |-> <<>>, timer |-> FALSE, busy |-> FALSE]

\* the dashboard before anything is loaded
DashIdle ==
    /\ selected = "" /\ selects = 0 /\ inflight = {} /\ metrics = <<>>
    /\ aiBusy = FALSE /\ aiFV = Null /\ aiError = "" /\ aiCached = FALSE
    /\ longWait = FALSE /\ ai = Idle
    /\ cache = {} /\ now = 0 /\ aiFrom = [via |-> "none", m |-> <<>>]

\* no /report in flight, in a process started with no environment set
NoHandler == [env |-> Undefined, openai |-> FALSE, pc |-> "idle", req |-> <<>>, data |-> <<>>]

\* the server before anything is ingested or requested
SrvIdle == disk = {} /\ ingested = <<>> /\ srv = NoHandler /\ res = <<>>

InitNormalize ==
    /\ source \in Sources
    /\ norm = NoNorm
    /\ series = <<>>
    /\ view = NoView
    /\ config = [hasWebGPU |-> FALSE, openaiKey |-> FALSE]
    /\ DashIdle
    /\ SrvIdle

NextNormalize == Ingest \/ WebLoadDataset \/ AppRows

SpecNormalize == InitNormalize /\ [][NextNormalize]_vars

(* ------------------- what the claims say of a raw row ------------------ *)

\* the field a header names once case, white space and aliases are set aside
FieldOf(key) ==
    LET h == ToLowerCase(Trim(key))
    IN  CASE h = K_sales            -> K_revenue
          [] h = K_operating_income -> K_operatingincome
          [] h = K_net_income       -> K_netincome
          [] OTHER                  -> h

\* the column of the source that names the field, 0 when there is none
ColumnOf(field) ==
    IF \E j \in 1..Len(source.header) : FieldOf(source.header[j]) = field
    THEN CHOOSE j \in 1..Len(source.header) : FieldOf(source.header[j]) = field
    ELSE 0

\* the source value of the field in data row i; Undefined when the row has none
SourceValue(i, field) ==
    IF ColumnOf(field) = 0 THEN Undefined ELSE source.cells[i][ColumnOf(field)]

\* the cell is a numeric value: a finite number, or text that reads as one
IsNumeric(v) ==
    \/ v.t = "number"
    \/ v.t = "string" /\ Trim(v.s) # <<>> /\ StringToNumber(v.s).t = "number"

\* the cell reports nothing: no cell, null, or empty text
IsUnreported(v) == IsNullish(v) \/ (v.t = "string" /\ Trim(v.s) = <<>>)

\* a <= b on finite numbers
NumLeq(a, b) == a.n * b.d <= b.n * a.d

DataRows == 1..Len(source.cells)

\* C2: a row whose year field is missing (absent, null, empty) or non-numeric
\* never appears in a normalizer's output: every output record carries the
\* year of an input row whose year is numeric, and there are no more output
\* records than such rows.
C2_YearDrop ==
    norm.by # "none" =>
        /\ \A k \in 1..Len(norm.out) :
              \E i \in DataRows :
                  /\ IsNumeric(SourceValue(i, K_year))
                  /\ norm.out[k].year = ToNumber(SourceValue(i, K_year))
        /\ Len(norm.out) <=
              Cardinality({i \in DataRows : IsNumeric(SourceValue(i, K_year))})

\* C3: the output of every normalizer is sorted non-decreasing by year.
C3_SortedByYear ==
    norm.by # "none" =>
        \A k \in 1..(Len(norm.out) - 1) :
            NumLeq(norm.out[k].year, norm.out[k + 1].year)

\* a normalizer ran on two rows given in descending year order and kept both
C3_Witness ==
    /\ norm.by # "none"
    /\ Len(source.cells) = 2
    /\ IsNumeric(SourceValue(1, K_year))
    /\ IsNumeric(SourceValue(2, K_year))
    /\ ~NumLeq(ToNumber(SourceValue(1, K_year)), ToNumber(SourceValue(2, K_year)))
    /\ Len(norm.out) = 2

IncomeFields ==
    {<<K_revenue, "revenue">>, <<K_operatingincome, "operatingIncome">>,
     <<K_netincome, "netIncome">>}

\* C4: a row with a numeric year is kept, and each of revenue, operatingIncome
\* and netIncome whose source value does not coerce to a number (non-numeric
\* text, empty, null, absent) is exactly null in its record.
C4_CoercionFailureIsNull ==
    norm.by # "none" =>
        \A i \in DataRows :
            IsNumeric(SourceValue(i, K_year)) =>
                \E k \in 1..Len(norm.out) :
                    /\ norm.out[k].year = ToNumber(SourceValue(i, K_year))
                    /\ \A f \in IncomeFields :
                          ~IsNumeric(SourceValue(i, f[1])) => norm.out[k][f[2]] = Null

\* C5: a shares count that is not reported (no such key, or a null or empty
\* cell) is null in the record, never the number 0.
C5_UnreportedSharesIsNull ==
    norm.by # "none" =>
        \A i \in DataRows :
            /\ IsNumeric(SourceValue(i, K_year))
            /\ IsUnreported(SourceValue(i, K_sharesoutstanding))
            => \E k \in 1..Len(norm.out) :
                  /\ norm.out[k].year = ToNumber(SourceValue(i, K_year))
                  /\ norm.out[k].sharesOutstanding = Null

\* the year of data row i as the normalizer that ran reads it: in a sheet an
\* empty cell reads as null, in parsed JSON it is a key the row lacks
YearRead(i) ==
    LET v == SourceValue(i, K_year)
    IN  IF norm.by = "ingest" /\ ColumnOf(K_year) # 0 /\ v.t = "undefined" THEN Null ELSE v

\* the rows whose year coerces to the finite number y
RowsOfYear(y) == {i \in DataRows : ToNumber(YearRead(i)) = y}

\* C16: the output of loadExcelToJson and of the old client's normalizer holds
\* exactly one record per input row whose year coerces to a finite number:
\* as many records as such rows, and as many records of a year as rows of it.
C16_OneRecordPerRow ==
    norm.by \in {"ingest", "web"} =>
        /\ Len(norm.out) =
              Cardinality({i \in DataRows : NumberIsFinite(ToNumber(YearRead(i)))})
        /\ \A k \in 1..Len(norm.out) :
              Cardinality({j \in 1..Len(norm.out) : norm.out[j].year = norm.out[k].year})
                  = Cardinality(RowsOfYear(norm.out[k].year))

\* two rows of the same year, differing in another cell, both in the output
C16_Witness ==
    /\ norm.by \in {"ingest", "web"}
    /\ Len(source.cells) = 2
    /\ source.cells[1] # source.cells[2]
    /\ NumberIsFinite(ToNumber(YearRead(1)))
    /\ ToNumber(YearRead(1)) = ToNumber(YearRead(2))
    /\ Len(norm.out) = 2
    /\ norm.out[1].year = norm.out[2].year

\* the headers that name the same columns as h, only spelt otherwise
Respellings(h) ==
    {g \in Headers :
        /\ Len(g) = Len(h)
        /\ \A j \in 1..Len(h) : FieldOf(g[j]) = FieldOf(h[j])}

Respelt(g) == [source EXCEPT !.header = g]

\* C6: row sets that differ only in the case or surrounding white space of
\* their keys, or in using an alias, normalize to identical record sequences.
C6_AliasEquivalence ==
    \A g \in Respellings(source.header) :
        /\ norm.by = "ingest" => loadExcelToJson(AsSheet(Respelt(g))) = norm.out
        /\ norm.by = "web" =>
              web_normalizeFinancialRows(AsJsonRows(Respelt(g))) = norm.out
        /\ norm.by = "app" =>
              app_normalizeFinancialRows(AsJsonRows(Respelt(g))) = norm.out

(* ====================== the metrics helpers at work ==================== *)

\* canonical records: a finite year, every other field a number or null
SeriesYears == {Num(2022), Num(2023)}

SeriesRevenues == {Null, Num(0), Num(100), Num(150)}

SeriesNetIncomes == {Null, Num(10)}

SeriesShares == {Null, Num(0), Num(5)}

SeriesRecords ==
    {FinancialRecord(y, rev, Num(7), net, sh) :
        y \in SeriesYears, rev \in SeriesRevenues,
        net \in SeriesNetIncomes, sh \in SeriesShares}

\* the series a normalizer can hand over: canonical records in year order
SeriesSet ==
    {sq \in UNION {[1..n -> SeriesRecords] : n \in 0..MaxRows} :
        \A k \in 1..(Len(sq) - 1) : NumLeq(sq[k].year, sq[k + 1].year)}

\* process.env.TARGET_PE: unset, "10", "abc"
EnvTargetPE == {Undefined, Str(<<"1","0">>), Str(<<"a","b","c">>)}

\* the targetPE state of a client: useState(25), then e.target.value
TargetPEInputs == {Num(25), Str(<<>>), Str(<<"1","0">>)}

\* POST /report on a persisted dataset: rows, growth and fairValues of the
\* response (computeFairValuePerYear(rows) runs with the default TARGET_PE)
SrvReport ==
    /\ view.by = "none"
    /\ \E env \in EnvTargetPE :
          LET rows == srv_finiteYears(series)
              pe == TARGET_PE(env)
          IN  view' = [by |-> "server", pe |-> pe, rows |-> rows,
                       growth |-> srv_calcGrowth(rows),
                       fair |-> srv_computeFairValuePerYear(rows, pe)]
    /\ UNCHANGED <<normVars, series, dashVars, srvVars>>

\* App.jsx (static JSON): the growth and fair memos of a render
WebRender ==
    /\ view.by = "none"
    /\ \E targetPE \in TargetPEInputs :
          LET pe == clientTargetPE(targetPE)
          IN  view' = [by |-> "web", pe |-> pe, rows |-> series,
                       growth |-> web_calcGrowth(series),
                       fair |-> web_computeFairValuePerYear(series, pe)]
    /\ UNCHANGED <<normVars, series, dashVars, srvVars>>

\* App.jsx (merged): the growth and fair memos of a render
AppRender ==
    /\ view.by = "none"
    /\ \E targetPE \in TargetPEInputs :
          LET pe == clientTargetPE(targetPE)
          IN  view' = [by |-> "app", pe |-> pe, rows |-> series,
                       growth |-> app_calcGrowth(series),
                       fair |-> app_computeFairValuePerYear(series, pe)]
    /\ UNCHANGED <<normVars, series, dashVars, srvVars>>

InitMetrics ==
    /\ source = NoSource
    /\ norm = NoNorm
    /\ series \in SeriesSet
    /\ view = NoView
    /\ config = [hasWebGPU |-> FALSE, openaiKey |-> FALSE]
    /\ DashIdle
    /\ SrvIdle

NextMetrics == SrvReport \/ WebRender \/ AppRender

SpecMetrics == InitMetrics /\ [][NextMetrics]_vars

Points == 1..Len(view.growth)

\* C1: no growth value is NaN or an infinity; the growth of a pair is null
\* when the previous revenue is zero or either revenue is missing or non-finite.
C1_GrowthNullSafe ==
    view.by # "none" =>
        \A k \in Points :
            /\ view.growth[k].growth.t \notin {"NaN", "Infinity"}
            /\ (k < Len(view.rows) /\
                  (\/ view.rows[k].revenue = Num(0)
                   \/ ~NumberIsFinite(view.rows[k].revenue)
                   \/ ~NumberIsFinite(view.rows[k + 1].revenue)))
               => view.growth[k].growth = Null

C8_ShareGuard ==
    view.by # "none" =>
        \A k \in 1..Len(view.rows) :
            (k <= Len(view.fair) /\ view.rows[k].sharesOutstanding \in {Null, Num(0)})
                => view.fair[k].fairValuePerShare = Null

\* a record with zero shares, a finite net income and a finite non-zero multiple
C8_Witness ==
    /\ view.by # "none"
    /\ NumberIsFinite(view.pe) /\ view.pe # Num(0)
    /\ \E k \in 1..Len(view.rows) :
          /\ view.rows[k].sharesOutstanding = Num(0)
          /\ NumberIsFinite(view.rows[k].netIncome)
          /\ NumberIsFinite(view.fair[k].equityValue)
          /\ view.fair[k].fairValuePerShare = Null

\* C9: one FairValuePoint per record, in order, with the year copied,
\* equityValue = netIncome * multiple for a finite netIncome and null
\* otherwise, and fairValuePerShare * sharesOutstanding = equityValue when
\* sharesOutstanding is a non-zero finite number and equityValue is not null.
C9_FairValuePoints ==
    view.by # "none" =>
        /\ Len(view.fair) = Len(view.rows)
        /\ \A k \in 1..Len(view.rows) :
              k <= Len(view.fair) =>
              LET r == view.rows[k]
                  f == view.fair[k]
              IN  /\ f.year = r.year
                  /\ f.equityValue =
                        (IF NumberIsFinite(r.netIncome)
                         THEN JsMul(r.netIncome, view.pe) ELSE Null)
                  /\ (NumberIsFinite(r.sharesOutstanding)
                        /\ r.sharesOutstanding # Num(0) /\ f.equityValue # Null)
                        => /\ IsNumberType(f.fairValuePerShare)
                           /\ JsMul(f.fairValuePerShare, r.sharesOutstanding)
                                 = f.equityValue

\* netIncome 10, 5 shares, multiple 25: equityValue 250, fairValuePerShare 50
C9_Witness ==
    /\ view.by # "none"
    /\ view.pe = Num(25)
    /\ \E k \in 1..Len(view.rows) :
          /\ view.rows[k].netIncome = Num(10)
          /\ view.rows[k].sharesOutstanding = Num(5)
          /\ view.fair[k] = FairValuePoint(view.rows[k].year, Num(250), Num(50))

\* C20: on the same rows and the same target P/E, calcGrowth and
\* computeFairValuePerYear of either client copy return exactly what the
\* server's calcGrowth and computeFairValuePerYear return.
C20_ClientIsServerMath ==
    view.by \in {"web", "app"} =>
        /\ view.growth = srv_calcGrowth(view.rows)
        /\ view.fair = srv_computeFairValuePerYear(view.rows, view.pe)

\* a client rendered two rows with a zero base revenue, shares and a multiple
C20_Witness ==
    /\ view.by \in {"web", "app"}
    /\ Len(view.rows) = 2
    /\ view.rows[1].revenue = Num(0)
    /\ view.growth[1].growth.t = "Infinity"
    /\ view.pe = Num(10)
    /\ view.fair[2].fairValuePerShare = Num(20)

(* ============ App.jsx (merged): live valuation metrics, Ask AI ========= *)

Snapshot(price, fairEV, fairPE, fairPS, weighted, bookValue, grossMargin, netMargin, opMargin, currency) ==
    [price |-> price, fairEV |-> fairEV, fairPE |-> fairPE, fairPS |-> fairPS,
     weighted |-> weighted, bookValue |-> bookValue, grossMargin |-> grossMargin,
     netMargin |-> netMargin, opMargin |-> opMargin, currency |-> currency]

\* const TWELVE_API_KEY = '5da4...': a non-empty literal
TwelveKeySet == TRUE

MARKET_CCY_US == "USD"

\* asNum(x) of fetchValuationMetrics
asNum(x) ==
    CASE IsNullish(x)     -> Num(0)
      [] IsNumberType(x)  -> x
      [] x.t = "string"   ->
            LET n == ParseFloat(RemoveCommas(x.s))
            IN  IF NumberIsFinite(n) THEN n ELSE Num(0)
      [] OTHER            -> Num(0)

\* the three values weighted 0.25 / 0.5 / 0.25
fvm_weighted_swapped(fairEV, fairPE, fairPS) ==
    JsAdd(JsAdd(JsMul(fairEV, Rat(1, 4)), JsMul(fairPE, Rat(1, 2))),
          JsMul(fairPS, Rat(1, 4)))

\* const weighted = fairEV * 0.5 + fairPE * 0.25 + fairPS * 0.25
fvm_weighted(fairEV, fairPE, fairPS) ==
    JsAdd(JsAdd(JsMul(fairEV, Rat(1, 2)), JsMul(fairPE, Rat(1, 4))),
          JsMul(fairPS, Rat(1, 4)))

\* fetchValuationMetrics once the four responses are parsed.  td holds the
\* leaves the function reads through optional chaining, Undefined for a leaf
\* or a parent that the response lacks.
fetchValuationMetrics(td, currency) ==
    IF ~TwelveKeySet
    THEN Snapshot(Num(0), Num(0), Num(0), Num(0), Num(0), Num(0),
                  Num(0), Num(0), Num(0), currency)
    ELSE
    LET price == asNum(td.price)
        enterpriseValue == asNum(td.enterprise_value)
        sharesOutstanding == asNum(td.shares_outstanding)
        cash == asNum(td.cash)
        longTermDebt == asNum(td.long_term_debt)
        forwardPE == asNum(td.forward_pe)
        netIncome == asNum(td.net_income)
        priceToSales == asNum(td.price_to_sales_ttm)
        sales == asNum(td.sales)
        has == JsPositive(sharesOutstanding)
        fairEV == IF has
                  THEN JsDiv(JsAdd(JsSub(enterpriseValue, longTermDebt), cash),
                             sharesOutstanding)
                  ELSE Num(0)
        fairPE == IF has THEN JsDiv(JsMul(forwardPE, netIncome), sharesOutstanding)
                  ELSE Num(0)
        fairPS == IF has THEN JsDiv(JsMul(priceToSales, sales), sharesOutstanding)
                  ELSE Num(0)
        weighted == fvm_weighted(fairEV, fairPE, fairPS)
        bookValue == asNum(td.book_value_per_share_mrq)
        grossMargin == JsMul(asNum(td.gross_margin), Num(100))
        netMargin == JsMul(asNum(td.profit_margin), Num(100))
        opMargin == JsMul(asNum(td.operating_margin), Num(100))
    IN  Snapshot(price, fairEV, fairPE, fairPS, weighted, bookValue,
                 grossMargin, netMargin, opMargin, currency)

\* const round2 = (n) => (Number.isFinite(n) ? Number(n.toFixed(2)) : 0)
round2(n) == IF NumberIsFinite(n) THEN ToNumber(Str(ToFixed2(n))) ELSE Num(0)

\* aiInputsSig(m): the five rounded inputs, in the order of the template
aiInputsSig(m) ==
    <<round2(m.fairEV), round2(m.fairPE), round2(m.fairPS),
      round2(m.bookValue), round2(m.price)>>

\* AI_CACHE_KEY(symbolWithSuffix, sig)
AI_CACHE_KEY(symbol, sig) == <<symbol>> \o sig

\* const AI_TTL_MS = 24 * 60 * 60 * 1000, in hours
AI_TTL_H == 24

\* cacheRead(k, null): <<>> for null, else <<entry>>
cacheRead(k) ==
    IF \E e \in cache : e.key = k THEN <<CHOOSE e \in cache : e.key = k>> ELSE <<>>

\* cacheWrite(k, { at, fv }): localStorage after the write
cacheWrite(k, at, fv) ==
    {e \in cache : e.key # k} \cup {[key |-> k, at |-> at, fv |-> fv]}

\* the local deterministic fallback: the same formula on the metrics askAI holds
askAI_fvNum(m) ==
    JsAdd(JsAdd(JsMul(m.fairEV, Rat(1, 2)), JsMul(m.fairPE, Rat(1, 4))),
          JsMul(m.fairPS, Rat(1, 4)))

\* Number(fvNum.toFixed(2))
askAI_localFV(m) == ToNumber(Str(ToFixed2(askAI_fvNum(m))))

ErrorMessage == "Something went wrong. Try again later."

(* ------------------------------- bounds -------------------------------- *)

\* how many times a company is selected (the first selection included)
MaxSelects == 2

\* the last hour the clock reaches
MaxClock == 24

(* ----------------------- what the provider returns --------------------- *)

Companies == <<"AAPL", "MSFT">>

ProviderReplies ==
    {[price |-> p, enterprise_value |-> ev, shares_outstanding |-> sh,
      cash |-> Num(8), long_term_debt |-> Num(4),
      forward_pe |-> Str(<<"2">>), net_income |-> Num(16),
      price_to_sales_ttm |-> Num(3), sales |-> Num(8),
      book_value_per_share_mrq |-> Str(<<"5",".","2","5">>),
      gross_margin |-> Rat(1, 2), profit_margin |-> Rat(1, 4),
      operating_margin |-> Undefined] :
        p \in {Str(<<"1",",","0","1","0",".","5","0">>)},
        ev \in {Num(36), Num(37)},
        sh \in {Num(4), Undefined}}

\* what extractJSON(content)?.fv is for a model's answer: nothing usable, a
\* number, a number given as text
LlmAnswers == {Undefined, Num(9), Str(<<"9">>)}

\* j && typeof j.fv === 'number' && isFinite(j.fv)
UsableFv(fv) == IsNumberType(fv) /\ NumberIsFinite(fv)

(* ------------------------------- actions ------------------------------- *)

\* the effect on [company]: reset, then fetchValuationMetrics(symbol, 'USD')
CompanyEffect(c) ==
    /\ selected' = c
    /\ selects' = selects + 1
    /\ metrics' = <<>>
    /\ aiFV' = Null
    /\ aiError' = ""
    /\ aiCached' = FALSE
    /\ aiFrom' = [via |-> "none", m |-> <<>>]
    /\ inflight' = inflight \cup {[id |-> selects + 1, symbol |-> c]}
    /\ UNCHANGED <<config, aiBusy, longWait, ai, cache, now, normVars, metricVars, srvVars>>

\* companies.json loads: setSelectedKey of the first company
LoadCompanies ==
    /\ selected = ""
    /\ selects < MaxSelects
    /\ CompanyEffect(Companies[1])

\* the user picks another company
SelectCompany ==
    /\ selected # ""
    /\ selects < MaxSelects
    /\ \E i \in 1..Len(Companies) :
          /\ Companies[i] # selected
          /\ CompanyEffect(Companies[i])

\* a fetchValuationMetrics call resolves: setMetrics(data)
FetchDone ==
    \E f \in inflight, td \in ProviderReplies :
        /\ metrics' = <<fetchValuationMetrics(td, MARKET_CCY_US)>>
        /\ inflight' = inflight \ {f}
        /\ UNCHANGED <<config, selected, selects, aiBusy, aiFV, aiError, aiCached,
                       longWait, ai, cache, now, aiFrom, normVars, metricVars, srvVars>>

\* a fetch rejects or a body does not parse: the async effect rejects
FetchFail ==
    \E f \in inflight :
        /\ inflight' = inflight \ {f}
        /\ UNCHANGED <<config, selected, selects, metrics, aiBusy, aiFV, aiError,
                       aiCached, longWait, ai, cache, now, aiFrom, normVars,
                       metricVars, srvVars>>

\* askAI's finally, after a result fv was set and cached
AiSucceed(inv, fv, via) ==
    /\ aiFV' = fv
    /\ cache' = cacheWrite(inv.key, now, fv)
    /\ aiBusy' = FALSE
    /\ longWait' = FALSE
    /\ ai' = Idle
    /\ aiFrom' = [via |-> via, m |-> inv.m]

\* askAI with a catch and no finally: the error path keeps the busy flag
AiFail_noFinally(fv) ==
    /\ aiError' = ErrorMessage
    /\ aiFV' = fv
    /\ aiBusy' = aiBusy
    /\ longWait' = longWait
    /\ ai' = Idle
    /\ aiFrom' = [via |-> "error", m |-> <<>>]
    /\ UNCHANGED cache

\* askAI's catch and finally; fv is the aiFV the invocation leaves behind
AiFail(fv) ==
    /\ aiError' = ErrorMessage
    /\ aiFV' = fv
    /\ aiBusy' = FALSE
    /\ longWait' = FALSE
    /\ ai' = Idle
    /\ aiFrom' = [via |-> "error", m |-> <<>>]
    /\ UNCHANGED cache

\* 4) the local deterministic fallback; fv and err are aiFV and aiError so far
AiLocal(inv, fv, err) ==
    IF ~NumberIsFinite(askAI_fvNum(inv.m[1]))
    THEN AiFail(fv)
    ELSE /\ AiSucceed(inv, askAI_localFV(inv.m[1]), "local")
         /\ aiError' = err

\* 3) OpenAI if a key is set, else 4)
AfterWebLLM(inv, fv, err) ==
    IF config.openaiKey
    THEN /\ ai' = [inv EXCEPT !.pc = "openai"]
         /\ aiBusy' = TRUE
         /\ aiFV' = fv
         /\ aiError' = err
         /\ aiFrom' = [via |-> "none", m |-> <<>>]
         /\ UNCHANGED <<longWait, cache>>
    ELSE AiLocal(inv, fv, err)

\* a click on Ask AI, up to its first await
AskAI ==
    /\ metrics # <<>>
    /\ ~aiBusy
    /\ LET inv == [pc |-> "start", m |-> metrics,
                   key |-> AI_CACHE_KEY(selected, aiInputsSig(metrics[1])),
                   timer |-> TRUE, busy |-> aiBusy]
           cached == cacheRead(inv.key)
       IN  IF /\ cached # <<>>
              /\ now - cached[1].at < AI_TTL_H
              /\ NumberIsFinite(cached[1].fv)
           THEN /\ aiFV' = cached[1].fv
                /\ aiCached' = TRUE
                /\ aiError' = ""
                /\ aiBusy' = FALSE
                /\ longWait' = FALSE
                /\ ai' = Idle
                /\ aiFrom' = [via |-> "cache", m |-> metrics]
                /\ UNCHANGED cache
           ELSE /\ aiCached' = FALSE
                /\ IF config.hasWebGPU
                   THEN /\ ai' = [inv EXCEPT !.pc = "engine"]
                        /\ aiBusy' = TRUE
                        /\ aiFV' = Null
                        /\ aiError' = ""
                        /\ aiFrom' = [via |-> "none", m |-> <<>>]
                        /\ UNCHANGED <<longWait, cache>>
                   ELSE AfterWebLLM(inv, Null, "")
    /\ UNCHANGED <<config, selected, selects, inflight, metrics, now,
                   normVars, metricVars, srvVars>>

\* what an askAI continuation leaves alone
AiFrame ==
    UNCHANGED <<config, selected, selects, inflight, metrics, aiCached, now,
                normVars, metricVars, srvVars>>

\* await getEngine() resolves
EngineReady ==
    /\ ai.pc = "engine"
    /\ ai' = [ai EXCEPT !.pc = "webllm"]
    /\ UNCHANGED <<aiBusy, aiFV, aiError, longWait, cache, aiFrom>>
    /\ AiFrame

\* await getEngine() throws: the inner catch, then on to OpenAI or local
EngineFail ==
    /\ ai.pc = "engine"
    /\ AfterWebLLM(ai, aiFV, aiError)
    /\ AiFrame

\* eng.chat.completions.create resolves with an answer
WebLLMAnswer ==
    /\ ai.pc = "webllm"
    /\ \E fv \in LlmAnswers :
          IF UsableFv(fv)
          THEN AiSucceed(ai, fv, "webllm") /\ UNCHANGED aiError
          ELSE AfterWebLLM(ai, aiFV, aiError)
    /\ AiFrame

\* eng.chat.completions.create throws
WebLLMFail ==
    /\ ai.pc = "webllm"
    /\ AfterWebLLM(ai, aiFV, aiError)
    /\ AiFrame

\* the fetch to OpenAI rejects, or answers with r.ok false
OpenAIFail ==
    /\ ai.pc = "openai"
    /\ AiFail(aiFV)
    /\ AiFrame

\* the fetch to OpenAI answers with r.ok true
OpenAIResponse ==
    /\ ai.pc = "openai"
    /\ ai' = [ai EXCEPT !.pc = "openai_json"]
    /\ UNCHANGED <<aiBusy, aiFV, aiError, longWait, cache, aiFrom>>
    /\ AiFrame

\* await r.json() resolves
OpenAIBody ==
    /\ ai.pc = "openai_json"
    /\ \E fv \in LlmAnswers :
          IF UsableFv(fv)
          THEN AiSucceed(ai, fv, "openai") /\ UNCHANGED aiError
          ELSE AiLocal(ai, aiFV, aiError)
    /\ AiFrame

\* await r.json() throws
OpenAIBodyFail ==
    /\ ai.pc = "openai_json"
    /\ AiFail(aiFV)
    /\ AiFrame

\* waitTimer fires 15 s after the click: if (aiBusy) setLongWait(true), on the
\* aiBusy of the render the click was made in
WaitTimer ==
    /\ ai.pc # "idle"
    /\ ai.timer
    /\ ai' = [ai EXCEPT !.timer = FALSE]
    /\ longWait' = (IF ai.busy THEN TRUE ELSE longWait)
    /\ UNCHANGED <<aiBusy, aiFV, aiError, cache, aiFrom>>
    /\ AiFrame

\* AI_TTL_H hours pass: an entry cached before is no longer fresh
Tick ==
    /\ now + AI_TTL_H <= MaxClock
    /\ now' = now + AI_TTL_H
    /\ UNCHANGED <<config, selected, selects, inflight, metrics, aiBusy, aiFV,
                   aiError, aiCached, longWait, ai, cache, aiFrom, normVars,
                   metricVars, srvVars>>

InitDashboard ==
    /\ source = NoSource
    /\ norm = NoNorm
    /\ series = <<>>
    /\ view = NoView
    /\ config \in [hasWebGPU : BOOLEAN, openaiKey : BOOLEAN]
    /\ DashIdle
    /\ SrvIdle

NextDashboard ==
    \/ LoadCompanies \/ SelectCompany \/ FetchDone \/ FetchFail
    \/ AskAI \/ EngineReady \/ EngineFail \/ WebLLMAnswer \/ WebLLMFail
    \/ OpenAIFail \/ OpenAIResponse \/ OpenAIBody \/ OpenAIBodyFail
    \/ WaitTimer \/ Tick

SpecDashboard == InitDashboard /\ [][NextDashboard]_vars

\* 0.5*fairEV + 0.25*fairPE + 0.25*fairPS, as (2*fairEV + fairPE + fairPS) / 4
Blend(m) ==
    JsDiv(JsAdd(JsAdd(JsMul(Num(2), m.fairEV), m.fairPE), m.fairPS), Num(4))

\* |a - b| <= 1/200 on finite numbers
WithinHalfCent(a, b) ==
    LET diff == JsSub(a, b) IN Abs(diff.n) * 200 <= diff.d

\* C10 as claimed: the weighted field of a snapshot and the local fallback
\* value of askAI are both 0.5*fairEV + 0.25*fairPE + 0.25*fairPS of the
\* snapshot they were computed from.
C10_BlendExact ==
    /\ metrics # <<>> => metrics[1].weighted = Blend(metrics[1])
    /\ aiFrom.via = "local" => aiFV = Blend(aiFrom.m[1])

\* C10 as amended: the weighted field is the blend exactly; the local fallback
\* value of askAI is the blend rounded to two decimals, a multiple of 0.01
\* within 0.005 of it.
C10_BlendRounded ==
    /\ metrics # <<>> => metrics[1].weighted = Blend(metrics[1])
    /\ aiFrom.via = "local" =>
          /\ NumberIsFinite(aiFV)
          /\ 100 % aiFV.d = 0
          /\ WithinHalfCent(aiFV, Blend(aiFrom.m[1]))

\* the local fallback ran on a snapshot whose blend has a third decimal
C10_Witness ==
    /\ metrics # <<>>
    /\ metrics[1].weighted = Rat(69, 8)
    /\ aiFrom.via = "local"
    /\ aiFrom.m = metrics
    /\ aiFV = Rat(863, 100)

(* ---------------- the live snapshot when the provider fails ------------ *)

\* the snapshot fetchValuationMetrics returns without calling the provider
ZeroSnapshot(currency) ==
    Snapshot(Num(0), Num(0), Num(0), Num(0), Num(0), Num(0), Num(0), Num(0), Num(0), currency)

\* C11: when a market-data call fails (a fetch rejects, a body does not
\* parse), the failure is caught and the dashboard's metrics state receives a
\* snapshot whose numeric fields are all zero.
C11_FetchFailureZeroed ==
    [][FetchFail => metrics' = <<ZeroSnapshot(MARKET_CCY_US)>>]_vars

(* ============== ingest.js as a program, index.js POST /report ========== *)

\* JSON.stringify of a property value: NaN and the infinities are written as
\* null, a whole number as its digits, a string between quotes; an undefined
\* property is left out (no text)
JSON_stringifyValue(v) ==
    CASE v.t = "undefined" -> <<>>
      [] v.t \in {"null", "NaN", "Infinity"} -> <<"n","u","l","l">>
      [] v.t = "string" -> <<"\"">> \o v.s \o <<"\"">>
      [] v.t = "number" /\ v.d = 1 ->
            (IF v.n < 0 THEN <<"-">> ELSE <<>>) \o NatToChars(Abs(v.n))

\* JSON.parse of the text of a property value
JSON_parseValue(txt) ==
    CASE txt = <<>> -> Undefined
      [] txt = <<"n","u","l","l">> -> Null
      [] txt # <<>> /\ Head(txt) = "\"" -> Str(SubSeq(txt, 2, Len(txt) - 1))
      [] OTHER -> StringToNumber(txt)

RecordFields == {"year", "revenue", "operatingIncome", "netIncome", "sharesOutstanding"}

\* JSON.stringify({ ticker, exchange, rows }, null, 2): the text of every leaf
JSON_stringify(data) ==
    [ticker |-> JSON_stringifyValue(data.ticker),
     exchange |-> JSON_stringifyValue(data.exchange),
     rows |-> [i \in 1..Len(data.rows) |->
                 [f \in RecordFields |-> JSON_stringifyValue(data.rows[i][f])]]]

\* JSON.parse(fs.readFileSync(fp, 'utf8'))
JSON_parse(text) ==
    [ticker |-> JSON_parseValue(text.ticker),
     exchange |-> JSON_parseValue(text.exchange),
     rows |-> [i \in 1..Len(text.rows) |->
                 [f \in RecordFields |-> JSON_parseValue(text.rows[i][f])]]]

\* the key without toUpperCase
slug_asGiven(exchange, ticker) == exchange.s \o <<"_">> \o ticker.s

\* `${exchange.toUpperCase()}_${ticker.toUpperCase()}`
slug(exchange, ticker) == ToUpperCase(exchange.s) \o <<"_">> \o ToUpperCase(ticker.s)

\* saveJsonForTicker({ ticker, exchange, rows }): out/ after writeFileSync
saveJsonForTicker(ticker, exchange, rows) ==
    LET fp == slug(exchange, ticker)
    IN  {f \in disk : f.slug # fp}
        \cup {[slug |-> fp,
               text |-> JSON_stringify([ticker |-> ticker, exchange |-> exchange,
                                        rows |-> rows])]}

\* loadDataset(exchange, ticker): <<>> for null, else <<the parsed dataset>>
loadDataset(exchange, ticker) ==
    LET fp == slug(exchange, ticker)
    IN  IF ~\E f \in disk : f.slug = fp THEN <<>>
        ELSE <<JSON_parse((CHOOSE f \in disk : f.slug = fp).text)>>

\* the schema without min(1)
querySchema_anyString(body) == body.ticker.t = "string" /\ body.exchange.t = "string"

\* querySchema.safeParse(req.body).success: ticker and exchange are strings
\* of at least one character
querySchema_success(body) ==
    /\ body.ticker.t = "string" /\ Len(body.ticker.s) >= 1
    /\ body.exchange.t = "string" /\ Len(body.exchange.s) >= 1

\* rows.map((r) => ({ year: r.year, value: r[field] }))
ChartSeries(rows, field) ==
    [i \in 1..Len(rows) |-> [year |-> rows[i].year, value |-> rows[i][field]]]

\* the response object of POST /report, before the narrative
srv_response(ticker, exchange, data, env) ==
    LET rows == srv_finiteYears(data.rows)
        salesGrowth == srv_calcGrowth(rows)
        fairValues == srv_computeFairValuePerYear(rows, TARGET_PE(env))
    IN  [meta |-> [ticker |-> ticker, exchange |-> exchange, targetPE |-> TARGET_PE(env)],
         rows |-> rows,
         charts |-> [revenue |-> ChartSeries(rows, "revenue"),
                     operatingIncome |-> ChartSeries(rows, "operatingIncome"),
                     netIncome |-> ChartSeries(rows, "netIncome")],
         growth |-> salesGrowth,
         fairValues |-> fairValues]

\* (g.growth ?? 0).toFixed(3) of the prompt throws on a growth that is
\* neither nullish nor a number
srv_promptThrows(response) ==
    \E i \in 1..Len(response.growth) :
        LET g == response.growth[i].growth
        IN  ~IsNullish(g) /\ ~IsNumberType(g)

\* a value as res.json writes it and the client reads it
Wire(v) == JSON_parseValue(JSON_stringifyValue(v))

\* res.json({ ...response, aiNarrative: ai })
srv_json(response, aiNarrative) ==
    [meta |-> [ticker |-> Wire(response.meta.ticker),
               exchange |-> Wire(response.meta.exchange),
               targetPE |-> Wire(response.meta.targetPE)],
     rows |-> [i \in 1..Len(response.rows) |->
                 [f \in RecordFields |-> Wire(response.rows[i][f])]],
     charts |-> [c \in {"revenue", "operatingIncome", "netIncome"} |->
                   [i \in 1..Len(response.rows) |->
                      [year |-> Wire(response.charts[c][i].year),
                       value |-> Wire(response.charts[c][i].value)]]],
     growth |-> [i \in 1..Len(response.growth) |->
                   GrowthPoint(Wire(response.growth[i].year),
                               Wire(response.growth[i].growth))],
     fairValues |-> [i \in 1..Len(response.fairValues) |->
                       FairValuePoint(Wire(response.fairValues[i].year),
                                      Wire(response.fairValues[i].equityValue),
                                      Wire(response.fairValues[i].fairValuePerShare))],
     aiNarrative |-> Wire(aiNarrative)]

\* what the client of the last request received; req, data and narrative are
\* history: the body sent, what loadDataset returned, how the narrative went
Reply(status, body, req, data, narrative) ==
    [status |-> status, body |-> body, req |-> req, data |-> data, narrative |-> narrative]

(* --------------------------- server: bounds ---------------------------- *)

\* how many times ingest.js is run
MaxIngests == 2

(* --------------------------- server: inputs ---------------------------- *)

\* <ticker> <exchange> of an ingest.js run: one company under two spellings,
\* and another company whose exchange name holds the underscore
CliNames ==
    {<<Str(<<"b","_","c">>), Str(<<"a">>)>>, <<Str(<<"B","_","C">>), Str(<<"A">>)>>,
     <<Str(<<"c">>), Str(<<"a","_","b">>)>>}

\* the workbooks ingested: two good rows in descending year order, and one
\* row whose revenue cell holds text
CliSheets ==
    {[header |-> H_canonical,
      cells |-> <<CleanRow(Str(<<"2","0","2","3">>)), CleanRow(Num(2022))>>],
     [header |-> H_canonical,
      cells |-> <<[CleanRow(Num(2022)) EXCEPT ![2] = Str(<<"a","b","c">>)]>>]}

\* req.body of POST /report: the names of the runs and a company never
\* ingested, one of the names with a targetMultiple too, and bodies the schema
\* rejects
ReportBodies ==
    {[ticker |-> n[1], exchange |-> n[2], targetMultiple |-> Undefined] :
        n \in CliNames \cup {<<Str(<<"z">>), Str(<<"a">>)>>}}
    \cup {[ticker |-> Str(<<"b","_","c">>), exchange |-> Str(<<"a">>),
           targetMultiple |-> Num(10)]}
    \cup {[ticker |-> n[1], exchange |-> n[2], targetMultiple |-> Undefined] :
              n \in {<<Undefined, Str(<<"a">>)>>, <<Str(<<>>), Str(<<"a">>)>>,
                     <<Str(<<"c">>), Num(5)>>}}

\* chat.choices?.[0]?.message?.content: a text, or nothing
NarrativeContents == {Str(<<"o","k">>), Undefined}

(* --------------------------- server: actions --------------------------- *)

\* the two workbooks of CliSheets: S_good with two rows, S_text with a
\* revenue that is text
S_good == CHOOSE sh \in CliSheets : Len(sh.cells) = 2

S_text == CHOOSE sh \in CliSheets : Len(sh.cells) = 1

\* the runs of ingest.js: <ticker> <exchange> and the workbook at <excelPath>
CliArgs ==
    {<<Str(<<"b","_","c">>), Str(<<"a">>), S_good>>,
     <<Str(<<"b","_","c">>), Str(<<"a">>), S_text>>,
     <<Str(<<"B","_","C">>), Str(<<"A">>), S_text>>,
     <<Str(<<"c">>), Str(<<"a","_","b">>), S_good>>}

\* what ingest.js holds once loadExcelToJson(full) returns, for every run
CliRuns ==
    {[ticker |-> a[1], exchange |-> a[2], rows |-> loadExcelToJson(AsSheet(a[3]))] :
        a \in CliArgs}

\* node ingest.js <excelPath> <ticker> <exchange>
IngestRun ==
    /\ Len(ingested) < MaxIngests
    /\ \E run \in CliRuns :
          /\ disk' = saveJsonForTicker(run.ticker, run.exchange, run.rows)
          /\ ingested' = Append(ingested, run)
    /\ UNCHANGED <<srv, res, normVars, metricVars, dashVars>>

\* app.post('/report'), up to its response or to the await of the narrative
ReportRequest ==
    /\ srv.pc = "idle"
    /\ \E body \in ReportBodies :
          IF ~querySchema_success(body)
          THEN /\ res' = <<Reply(400, [error |-> "Invalid body"], body, <<>>, "none")>>
               /\ UNCHANGED srv
          ELSE
          LET data == loadDataset(body.exchange, body.ticker)
          IN  IF data = <<>>
              THEN /\ res' = <<Reply(404, [error |-> "Data not found. Ingest Excel first."],
                                     body, <<>>, "none")>>
                   /\ UNCHANGED srv
              ELSE
              LET response == srv_response(body.ticker, body.exchange, data[1], srv.env)
              IN  IF ~srv.openai
                  THEN /\ res' = <<Reply(200, srv_json(response, Null), body, data, "off")>>
                       /\ UNCHANGED srv
                  ELSE IF srv_promptThrows(response)
                  THEN /\ res' = <<Reply(500, [error |-> "Internal server error"],
                                         body, data, "none")>>
                       /\ UNCHANGED srv
                  ELSE /\ res' = <<>>
                       /\ srv' = [srv EXCEPT !.pc = "narrative", !.req = <<body>>,
                                             !.data = data]
    /\ UNCHANGED <<disk, ingested, normVars, metricVars, dashVars>>

\* the response of a /report whose narrative call is settled
NarrativeDone(aiNarrative, how) ==
    LET body == srv.req[1]
        response == srv_response(body.ticker, body.exchange, srv.data[1], srv.env)
    IN  /\ res' = <<Reply(200, srv_json(response, aiNarrative), body, srv.data, how)>>
        /\ srv' = [srv EXCEPT !.pc = "idle", !.req = <<>>, !.data = <<>>]
        /\ UNCHANGED <<disk, ingested, normVars, metricVars, dashVars>>

\* await openai.chat.completions.create resolves: ai = content ?? null
NarrativeAnswer ==
    /\ srv.pc = "narrative"
    /\ \E content \in NarrativeContents :
          NarrativeDone(Coalesce(content, Null), "answered")

\* the narrative call's exception reaching the outer catch
NarrativeThrow_uncaught ==
    /\ srv.pc = "narrative"
    /\ res' = <<Reply(500, [error |-> "Internal server error"], srv.req[1], srv.data, "threw")>>
    /\ srv' = [srv EXCEPT !.pc = "idle", !.req = <<>>, !.data = <<>>]
    /\ UNCHANGED <<disk, ingested, normVars, metricVars, dashVars>>

\* await openai.chat.completions.create throws: catch { ai = null }
NarrativeThrow ==
    /\ srv.pc = "narrative"
    /\ NarrativeDone(Null, "threw")

\* the server process starts: TARGET_PE and OPENAI_API_KEY are read once
InitServer ==
    /\ source = NoSource
    /\ norm = NoNorm
    /\ series = <<>>
    /\ view = NoView
    /\ config = [hasWebGPU |-> FALSE, openaiKey |-> FALSE]
    /\ DashIdle
    /\ disk = {}
    /\ ingested = <<>>
    /\ srv \in {[NoHandler EXCEPT !.env = e, !.openai = o] :
                   e \in EnvTargetPE, o \in BOOLEAN}
    /\ res = <<>>

NextServer == IngestRun \/ ReportRequest \/ NarrativeAnswer \/ NarrativeThrow

SpecServer == InitServer /\ [][NextServer]_vars

(* ------------------------- POST /report: claims ------------------------ *)

\* the numeric payload of a 200 body: everything but the narrative
Payload(body) ==
    [meta |-> body.meta, rows |-> body.rows, charts |-> body.charts,
     growth |-> body.growth, fairValues |-> body.fairValues]

\* C12: a valid request that finds its dataset is answered 200 with the rows,
\* charts, growth and fairValues it gets when no narrative service is
\* configured, however the narrative call goes; aiNarrative is null when the
\* call throws or the service is not configured.
C12_NarrativeNeverFails ==
    res # <<>> /\ res[1].data # <<>> =>
        LET r == res[1]
            plain == srv_json(srv_response(r.req.ticker, r.req.exchange,
                                           r.data[1], srv.env), Null)
        IN  /\ r.status = 200
            /\ Payload(r.body) = Payload(plain)
            /\ r.narrative \in {"off", "threw"} => r.body.aiNarrative = Null

\* a narrative call threw on a dataset of two rows
C12_Witness ==
    /\ res # <<>>
    /\ res[1].narrative = "threw"
    /\ res[1].status = 200
    /\ Len(res[1].body.rows) = 2
    /\ res[1].body.aiNarrative = Null

\* the body lacks a non-empty ticker or exchange
LacksName(req) ==
    \/ req.ticker.t # "string" \/ req.ticker.s = <<>>
    \/ req.exchange.t # "string" \/ req.exchange.s = <<>>

\* a file of out/ is kept under the key of the body's exchange and ticker
HasDataset(req) == \E f \in disk : f.slug = slug(req.exchange, req.ticker)

\* C13: every response to POST /report is a 400 (exactly when the body lacks
\* a non-empty ticker or exchange), a 404 (exactly when the body is valid and
\* no dataset is persisted under its key) or a 200 with the numeric payload.
C13_ThreeOutcomes ==
    [][(res' # <<>> /\ res' # res) =>
          LET r == res'[1]
          IN  /\ r.status \in {200, 400, 404}
              /\ r.status = 400 <=> LacksName(r.req)
              /\ r.status = 404 => ~LacksName(r.req) /\ ~HasDataset(r.req)
              /\ (~LacksName(r.req) /\ HasDataset(r.req)) =>
                    /\ r.status = 200
                    /\ Len(r.body.fairValues) = Len(r.body.rows)
                    /\ Len(r.body.growth) = Len(r.body.rows) - 1]_vars

\* the three outcomes side by side: a 404 for a valid body while another
\* company's dataset is on disk
C13_Witness ==
    /\ res # <<>>
    /\ res[1].status = 404
    /\ ~LacksName(res[1].req)
    /\ disk # {}

\* C14: a /report request that carries targetMultiple gets meta and
\* fairValues computed with that multiple.
C14_RequestMultiple ==
    (res # <<>> /\ res[1].status = 200 /\ NumberIsFinite(res[1].req.targetMultiple)) =>
        LET r == res[1]
            rows == srv_finiteYears(r.data[1].rows)
        IN  /\ r.body.meta.targetPE = r.req.targetMultiple
            /\ \A i \in 1..Len(rows) :
                  NumberIsFinite(rows[i].netIncome) =>
                      r.body.fairValues[i].equityValue
                          = JsMul(rows[i].netIncome, r.req.targetMultiple)

(* --------------------- persist, then load: claims ---------------------- *)

\* the (ticker, exchange) pairs a dataset is asked for
AskedNames == CliNames \cup {<<Str(<<"z">>), Str(<<"a">>)>>}

\* the same ticker and the same exchange, ignoring case
SameIdentity(t1, e1, t2, e2) ==
    ToLowerCase(t1.s) = ToLowerCase(t2.s) /\ ToLowerCase(e1.s) = ToLowerCase(e2.s)

\* the runs so far under the identity (t, e), by position
RunsOf(t, e) ==
    {i \in 1..Len(ingested) :
        SameIdentity(ingested[i].ticker, ingested[i].exchange, t, e)}

\* the latest of a non-empty set of positions
Latest(is) == CHOOSE i \in is : \A j \in is : j <= i

\* C17 as claimed: loadDataset(exchange, ticker) returns the dataset most
\* recently ingested under the same pair ignoring case, null when there is
\* none, and the datasets of two distinct identities never share a key.
C17_RoundTrip ==
    /\ \A n \in AskedNames :
          loadDataset(n[2], n[1]) =
              IF RunsOf(n[1], n[2]) = {} THEN <<>>
              ELSE <<ingested[Latest(RunsOf(n[1], n[2]))]>>
    /\ \A i, j \in 1..Len(ingested) :
          ~SameIdentity(ingested[i].ticker, ingested[i].exchange,
                        ingested[j].ticker, ingested[j].exchange)
          => slug(ingested[i].exchange, ingested[i].ticker)
                # slug(ingested[j].exchange, ingested[j].ticker)

\* a dataset as JSON keeps it: a field that is not a finite number is null
AsPersisted(run) ==
    [ticker |-> run.ticker, exchange |-> run.exchange,
     rows |-> [i \in 1..Len(run.rows) |->
                 [f \in RecordFields |->
                    IF NumberIsFinite(run.rows[i][f]) THEN run.rows[i][f] ELSE Null]]]

HasUnderscore(name) == \E i \in 1..Len(name.s) : name.s[i] = "_"

\* C17 as amended: while no exchange name holds an underscore, loadDataset
\* returns the dataset most recently ingested under the same pair ignoring
\* case, as JSON keeps it (NaN read back as null), and null when there is
\* none; two ingested datasets of distinct identities whose exchange names
\* hold no underscore never share a key.
C17_RoundTripPersisted ==
    /\ (\A i \in 1..Len(ingested) : ~HasUnderscore(ingested[i].exchange)) =>
          \A n \in AskedNames :
              ~HasUnderscore(n[2]) =>
                  loadDataset(n[2], n[1]) =
                      IF RunsOf(n[1], n[2]) = {} THEN <<>>
                      ELSE <<AsPersisted(ingested[Latest(RunsOf(n[1], n[2]))])>>
    /\ \A i, j \in 1..Len(ingested) :
          (/\ ~HasUnderscore(ingested[i].exchange)
           /\ ~HasUnderscore(ingested[j].exchange)
           /\ ~SameIdentity(ingested[i].ticker, ingested[i].exchange,
                            ingested[j].ticker, ingested[j].exchange))
          => slug(ingested[i].exchange, ingested[i].ticker)
                # slug(ingested[j].exchange, ingested[j].ticker)

\* one company ingested twice under two spellings, the second run with a
\* revenue that is not a number: the load under the first spelling returns
\* the second run, its NaN read back as null
C17_Witness ==
    /\ Len(ingested) = 2
    /\ ingested[1].ticker = Str(<<"b","_","c">>)
    /\ ingested[2].ticker = Str(<<"B","_","C">>)
    /\ Len(ingested[1].rows) = 2
    /\ ingested[2].rows[1].revenue = NaN
    /\ loadDataset(Str(<<"a">>), Str(<<"b","_","c">>)) # <<>>
    /\ loadDataset(Str(<<"a">>), Str(<<"b","_","c">>))[1].rows[1].revenue = Null
    /\ loadDataset(Str(<<"a">>), Str(<<"b","_","c">>))[1].ticker = Str(<<"B","_","C">>)

(* ---------------- row sets with entries that are no objects ------------ *)

\* an entry of a parsed rows array: an object with its own properties, or null
RowObject(entries) == [isNull |-> FALSE, entries |-> entries]

NullRow == [isNull |-> TRUE, entries |-> <<>>]

\* the parsed rows of a source whose entries at the positions nulls are null
AsJsonEntries(src) ==
    [i \in 1..Len(src.cells) |->
        IF i \in src.nulls THEN NullRow
        ELSE RowObject(JsonEntries(src.header, src.cells[i], 1))]

\* how a call ends: with the value returned, or with the exception thrown
Returned(out) == [threw |-> FALSE, out |-> out]

Thrown == [threw |-> TRUE, out |-> <<>>]

\* App.jsx (static JSON): lowerMap reads Object.entries(obj || {}), so a null
\* entry is read as an object without properties
web_normalizeEntries(arr) ==
    Returned(web_normalizeFinancialRows(
                 [i \in 1..Len(arr) |-> IF arr[i].isNull THEN <<>> ELSE arr[i].entries]))

\* App.jsx (merged): r.year of a null entry throws a TypeError
app_normalizeEntries(arr) ==
    IF \E i \in 1..Len(arr) : arr[i].isNull THEN Thrown
    ELSE Returned(app_normalizeFinancialRows([i \in 1..Len(arr) |-> arr[i].entries]))

\* a row set with no entry, or with its entry at position k, replaced by null
WithNullEntry(src, k) ==
    [header |-> src.header, cells |-> src.cells,
     nulls |-> IF k = 0 THEN {} ELSE {k}]

\* ingest.js on a sheet: sheet_to_json yields an object for every row
IngestEntries ==
    /\ norm.by = "none"
    /\ source.nulls = {}
    /\ norm' = [by |-> "ingest", end |-> Returned(loadExcelToJson(AsSheet(source)))]
    /\ UNCHANGED <<source, metricVars, dashVars, srvVars>>

\* App.jsx (static JSON), loadDataset: normalizeFinancialRows(j.rows || [])
WebEntries ==
    /\ norm.by = "none"
    /\ norm' = [by |-> "web", end |-> web_normalizeEntries(AsJsonEntries(source))]
    /\ UNCHANGED <<source, metricVars, dashVars, srvVars>>

\* App.jsx (merged): normalizeFinancialRows(company?.rows || [])
AppEntries ==
    /\ norm.by = "none"
    /\ norm' = [by |-> "app", end |-> app_normalizeEntries(AsJsonEntries(source))]
    /\ UNCHANGED <<source, metricVars, dashVars, srvVars>>

InitEntries ==
    /\ \E src \in Sources, k \in 0..MaxRows :
          /\ k <= Len(src.cells)
          /\ source = WithNullEntry(src, k)
    /\ norm = [by |-> "none", end |-> Returned(<<>>)]
    /\ series = <<>>
    /\ view = NoView
    /\ config = [hasWebGPU |-> FALSE, openaiKey |-> FALSE]
    /\ DashIdle
    /\ SrvIdle

NextEntries == IngestEntries \/ WebEntries \/ AppEntries

SpecEntries == InitEntries /\ [][NextEntries]_vars

\* C15: whatever the rows hold (missing, null, empty or non-numeric fields,
\* empty or null entries), a normalizer throws nothing and returns a
\* sequence no longer than its input.
C15_NoException ==
    norm.by # "none" =>
        /\ ~norm.end.threw
        /\ Len(norm.end.out) <= Len(source.cells)

(* --------------------------- Ask AI: claims ---------------------------- *)

\* C18: an askAI invocation in which neither the cache, nor WebLLM, nor
\* OpenAI yields a finite fv (the stage is unavailable, fails, or answers
\* with unusable text) ends with aiFV set to the local formula value of its
\* snapshot and with no error message.
C18_FallbackOrder ==
    aiFrom.via \in {"local", "error"} =>
        /\ aiFrom.via = "local"
        /\ aiError = ""
        /\ NumberIsFinite(aiFV)
        /\ WithinHalfCent(aiFV, Blend(aiFrom.m[1]))

\* C19: an askAI invocation still busy when its 15 s timer has fired shows
\* the long-wait hint (longWait is true) until it finishes; with no
\* invocation in flight longWait is false.
C19_LongWaitHint ==
    /\ (ai.pc # "idle" /\ ~ai.timer) => longWait
    /\ ai.pc = "idle" => ~longWait

(* ------------------- askAI: one invocation at a time --------------------- *)

\* the continuations of an askAI invocation: each await of lines 354-413
\* settles, and the event loop runs what follows it
AiStep ==
    \/ EngineReady \/ EngineFail \/ WebLLMAnswer \/ WebLLMFail
    \/ OpenAIFail \/ OpenAIResponse \/ OpenAIBody \/ OpenAIBodyFail

\* ENABLED <<AiStep>>_vars: an await of askAI is pending. At each position but
\* "idle" a continuation has that position as its only guard (EngineFail,
\* WebLLMFail, OpenAIFail, OpenAIBodyFail) and moves ai off it.
AiPending == ai.pc # "idle"

\* WF_vars(AiStep) by its definition, []<>~ENABLED <<A>>_v \/ []<><<A>>_v: a
\* promise askAI awaits settles, and the event loop then runs the continuation
AiFair == []<>(~AiPending) \/ []<><<AiStep>>_vars

\* the dashboard, with every pending await of askAI settling in the end
SpecDashboardLive == InitDashboard /\ [][NextDashboard]_vars /\ AiFair

\* C21: askAI is non-reentrant and always releases its busy flag. While an
\* invocation is past its guard aiBusy is true; no step taken with aiBusy true
\* or with metrics null is a step of askAI's entry, so a click made then
\* changes no state and at most one invocation is in flight; and whenever
\* aiBusy is true it is false again later, on every path an invocation takes
\* (cache hit, provider success, local fallback, error).
C21_NonReentrantReleases ==
    /\ [](ai.pc # "idle" => aiBusy)
    /\ [][(aiBusy \/ metrics = <<>>) => ~AskAI]_vars
    /\ (aiBusy ~> ~aiBusy)

\* an invocation that passed the guard, awaited the OpenAI request and ended
\* in the catch has released the flag
C21_Witness ==
    /\ aiFrom.via = "error"
    /\ aiError = ErrorMessage
    /\ ai.pc = "idle"
    /\ ~aiBusy

(* ---------------- live metrics under changing selections ----------------- *)

\* C22: under any interleaving of company selections and fetch completions,
\* metrics, when non-null, is the snapshot fetched for the selected company:
\* metrics is reset by every selection and set only by a completing fetch, so
\* every fetch whose completion sets metrics was started for the company
\* selected at that time.
C22_MetricsOfSelected ==
    [][FetchDone => \A f \in inflight \ inflight' : f.symbol = selected]_vars

(* --------------- the client normalizers on canonical records ------------- *)

\* a canonical record as the row object JSON.parse yields: its five
\* properties in the order they were written, a null one present with null
AsRowObject(rec) ==
    <<[k |-> K_year, v |-> rec.year],
      [k |-> K_revenue, v |-> rec.revenue],
      [k |-> P_operatingIncome, v |-> rec.operatingIncome],
      [k |-> P_netIncome, v |-> rec.netIncome],
      [k |-> P_sharesOutstanding, v |-> rec.sharesOutstanding]>>

AsRowObjects(rows) == [i \in 1..Len(rows) |-> AsRowObject(rows[i])]

\* App.jsx (static JSON), loadDataset: normalizeFinancialRows(j.rows || []) on
\* rows that are canonical already
WebCanonical ==
    /\ norm.by = "none"
    /\ norm' = [by |-> "web", out |-> web_normalizeFinancialRows(AsRowObjects(series))]
    /\ UNCHANGED <<source, metricVars, dashVars, srvVars>>

\* App.jsx (merged): normalizeFinancialRows(company?.rows || []) on rows that
\* are canonical already
AppCanonical ==
    /\ norm.by = "none"
    /\ norm' = [by |-> "app", out |-> app_normalizeFinancialRows(AsRowObjects(series))]
    /\ UNCHANGED <<source, metricVars, dashVars, srvVars>>

InitCanonical ==
    /\ source = NoSource
    /\ norm = NoNorm
    /\ series \in SeriesSet
    /\ view = NoView
    /\ config = [hasWebGPU |-> FALSE, openaiKey |-> FALSE]
    /\ DashIdle
    /\ SrvIdle

NextCanonical == WebCanonical \/ AppCanonical

SpecCanonical == InitCanonical /\ [][NextCanonical]_vars

\* C23: normalization is idempotent on canonical data: a client normalizer
\* applied to canonical records (finite years in ascending order, every other
\* field a number or null) returns an equal sequence, a null field staying
\* null.
C23_Idempotent ==
    norm.by \in {"web", "app"} => norm.out = series

====
